---- MODULE Spec2Model ----
(***************************************************************************)
(* Model of payslip/forms.py: generate_username, EmployeeForm (validation  *)
(* and save) and ExtraFieldForm, over the rows of User, Employee,          *)
(* ExtraField and ExtraFieldType.                                          *)
(*                                                                         *)
(* Strings that the code takes apart or extends (emails, usernames) are    *)
(* sequences of one-character strings.  A request is handled alone:        *)
(* between the binding of a form and the end of its save no other          *)
(* operation runs.  forms.py manages no transaction, so an exception       *)
(* raised inside save either leaves the rows as they were (the request's   *)
(* transaction is rolled back) or leaves the writes made before it         *)
(* (autocommit).                                                           *)
(***************************************************************************)
EXTENDS Naturals, Sequences, FiniteSets

VARIABLES
    users,            \* User rows by pk: [username, email]
    employees,        \* Employee rows by pk: [user, extra_fields]
    fields,           \* ExtraField rows by pk: [field_type, value]
    types,            \* ExtraFieldType rows: name -> fixed_values
    pc,               \* where the current request stands
    instance,         \* pk of the form's Employee, 0 for an unsaved one
    data,             \* the submitted data
    errors,           \* names of the fields with an error, "__all__" for non-field
    email,            \* generate_username's local `email`
    username,         \* generate_username's local `username`
    cleaned_username, \* cleaned_data['username'], <<>> when not set
    outcome,          \* how the last save ended
    pre               \* the rows as they were when save was entered

store == <<users, employees, fields, types>>
form == <<instance, data, errors, email, username, cleaned_username, outcome, pre>>
vars == <<users, employees, fields, types, pc, instance, data, errors, email,
          username, cleaned_username, outcome, pre>>

-----------------------------------------------------------------------------
(* Bounds *)

\* MD5Len stands for the 32 digits of an md5 hexdigest and UsernameMaxLen for
\* the 30 of them that get_md5_hexdigest keeps; HexDigit has two digits for
\* the sixteen.

MaxUsers == 3
InitUsers == 2
MaxFields == 2
MD5Len == 2
UsernameMaxLen == 1

-----------------------------------------------------------------------------
(* Values *)

EmailB == <<"b", "@">>
EmailBUpper == <<"B", "@">>
EmailC == <<"c", "@">>
EmailD == <<"d", "@">>
Emails == {EmailB, EmailBUpper, EmailC, EmailD}
Passwords == {"", "p", "q"}
Values == {"", "x", "y"}
TypeNames == {"t1", "t2"}

LowerChar(c) == IF c = "B" THEN "b" ELSE c

Lower(s) == [i \in DOMAIN s |-> LowerChar(s[i])]

IExact(s, t) == Lower(s) = Lower(t)

-----------------------------------------------------------------------------
(* get_md5_hexdigest *)

Code(c) ==
    CASE c = "a" -> 1
      [] c = "b" -> 2
      [] c = "B" -> 3
      [] c = "c" -> 4
      [] c = "d" -> 5
      [] OTHER -> 0

RECURSIVE Pow2(_)
Pow2(n) == IF n = 0 THEN 1 ELSE 2 * Pow2(n - 1)

RECURSIVE CodeSum(_)
CodeSum(s) == IF s = <<>> THEN 0 ELSE Code(Head(s)) + CodeSum(Tail(s))

\* md5.new(s): a many-to-one function of the whole string onto MD5Len digits.
md5_new(s) == CodeSum(s) % Pow2(MD5Len)

HexDigit(n) == IF n = 0 THEN "0" ELSE "1"

hexdigest(n) == [i \in 1..MD5Len |-> HexDigit((n \div Pow2(MD5Len - i)) % 2)]

\* s[0:n]
Slice(s, n) == SubSeq(s, 1, IF Len(s) < n THEN Len(s) ELSE n)

get_md5_hexdigest(e) == Slice(hexdigest(md5_new(e)), UsernameMaxLen)

Digests == {Slice(hexdigest(n), UsernameMaxLen) : n \in 0..(Pow2(MD5Len) - 1)}

\* md5_new of e followed by k 'a's is (CodeSum(e) + k) % Pow2(MD5Len): after
\* Period probes the loop of generate_username has computed every digest it
\* ever will.
Period == Pow2(MD5Len)

-----------------------------------------------------------------------------
(* Queries *)

Pks(rows) == DOMAIN rows

\* User.objects.get(username=u): the pks that match
UsersWithUsername(u) == {i \in Pks(users) : users[i].username = u}

UsersWithEmailExact(e) == {i \in Pks(users) : users[i].email = e}

\* User.objects.get(email__iexact=e): the pks that match
UsersWithEmail(e) == {i \in Pks(users) : IExact(users[i].email, e)}

\* an ExtraFieldType's extra_fields.all()
FieldsOfType(fs, t) == {f \in Pks(fs) : fs[f].field_type = t}

\* the choices of a fixed-value type's ChoiceField
Choices(t) == {fields[f].value : f \in FieldsOfType(fields, t)} \cup {""}

\* the instance's user pk, 0 for an unsaved instance
InstanceUser(inst) == IF inst = 0 THEN 0 ELSE employees[inst].user

\* the instance's extra_fields
InstanceFields(inst) == IF inst = 0 THEN {} ELSE employees[inst].extra_fields

-----------------------------------------------------------------------------
(* EmployeeForm validation *)

NoData == [email |-> <<>>, password |-> "", retype_password |-> "", extra |-> <<>>]
NoPre == [users |-> <<>>, employees |-> <<>>, fields |-> <<>>]

\* clean_email: "ok" when the email is returned, else the exception raised
clean_email(inst, e) ==
    LET found == UsersWithEmail(e) IN
    IF found = {} THEN "ok"
    ELSE IF Cardinality(found) > 1 THEN "MultipleObjectsReturned"
    ELSE IF inst # 0 /\ found = {InstanceUser(inst)} THEN "ok"
    ELSE "ValidationError"

\* password and retype_password are fields of a creation form only, and a
\* required field left empty is not in cleaned_data
HasPasswordFields(inst) == inst = 0

InCleaned(inst, value) == HasPasswordFields(inst) /\ value # ""

PasswordsEqual(inst, d) ==
    /\ InCleaned(inst, d.password)
    /\ InCleaned(inst, d.retype_password)
    /\ d.password = d.retype_password

\* clean, lines 121-124: the two passwords are there and differ
PasswordsDiffer(inst, d) ==
    /\ InCleaned(inst, d.password)
    /\ InCleaned(inst, d.retype_password)
    /\ d.password # d.retype_password

\* the errors of the fields' own cleaning, before clean() runs
FieldErrors(inst, d) ==
    LET r == clean_email(inst, d.email) IN
       (IF r = "ValidationError" THEN {"email"} ELSE {})
  \cup (IF r = "MultipleObjectsReturned" THEN {"MultipleObjectsReturned"} ELSE {})
  \cup (IF HasPasswordFields(inst) /\ d.password = "" THEN {"password"} ELSE {})
  \cup (IF HasPasswordFields(inst) /\ d.retype_password = ""
        THEN {"retype_password"} ELSE {})
  \cup {t \in DOMAIN types : types[t] /\ d.extra[t] \notin Choices(t)}

\* the ExtraField rows a save of d could add
NewRows(inst, d) ==
    {t \in DOMAIN types :
        /\ ~types[t]
        /\ d.extra[t] # ""
        /\ FieldsOfType(fields, t) \cap InstanceFields(inst) = {}}

\* The form is bound to submitted data and validated up to the call of
\* generate_username: __init__, the fields' cleaning, clean_email, clean.
Clean(inst, d) ==
    /\ pc = "idle"
    /\ inst \in 0..Len(employees)
    /\ inst = 0 => Len(users) < MaxUsers
    /\ inst # 0 => d.password = "" /\ d.retype_password = ""
    /\ Len(fields) + Cardinality(NewRows(inst, d)) <= MaxFields
    /\ instance' = inst
    /\ data' = d
    /\ LET errs == FieldErrors(inst, d) IN
       IF "email" \in errs \/ "MultipleObjectsReturned" \in errs
       THEN /\ errors' = errs
            /\ pc' = "invalid"
            /\ UNCHANGED <<email, username>>
       ELSE IF PasswordsDiffer(inst, d)
       THEN /\ errors' = errs \cup {"__all__"}
            /\ pc' = "invalid"
            /\ UNCHANGED <<email, username>>
       ELSE /\ errors' = errs
            /\ pc' = "probe"
            /\ email' = d.email
            /\ username' = get_md5_hexdigest(d.email)
    /\ UNCHANGED <<store, cleaned_username, outcome, pre>>

UsernameTakenAsEmail(u) == UsersWithEmail(u) # {}

\* generate_username's test of one probe: the lookup finds a User
UsernameTaken(u) == UsersWithUsername(u) # {}

NextEmailUnchanged(e) == e

\* generate_username's next candidate email
NextEmail(e) == Append(e, "a")

\* the markers the loop has appended to the submitted email
Probes == Len(email) - Len(data.email)

\* One turn of generate_username's loop; on a miss it returns and clean
\* stores the result in cleaned_data.  The loop is followed for one period:
\* after that it only repeats lookups it has made.
GenerateStep ==
    /\ pc = "probe"
    /\ IF UsernameTaken(username)
       THEN /\ Probes < Period
            /\ email' = NextEmail(email)
            /\ username' = get_md5_hexdigest(NextEmail(email))
            /\ UNCHANGED <<pc, cleaned_username>>
       ELSE /\ cleaned_username' = username
            /\ pc' = IF errors = {} THEN "valid" ELSE "invalid"
            /\ UNCHANGED <<email, username>>
    /\ UNCHANGED <<store, instance, data, errors, outcome, pre>>

-----------------------------------------------------------------------------
(* EmployeeForm.save *)

\* the username save gives a new User
NewUsername(d, cleaned) == d.email

ReconcileFixedNoRemove(st, t, v, field_to_save) ==
    LET found == {f \in FieldsOfType(st.fields, t) : st.fields[f].value = v}
    IN  IF found = {} THEN st
        ELSE IF Cardinality(found) > 1
        THEN [st EXCEPT !.exc = "MultipleObjectsReturned"]
        ELSE [st EXCEPT !.ef = st.ef \cup found]

ReconcileFixedKeepOld(st, t, v, field_to_save) ==
    LET ef1 == IF field_to_save # 0 THEN st.ef \ {field_to_save} ELSE st.ef
        found == {f \in FieldsOfType(st.fields, t) : st.fields[f].value = v}
    IN  IF found = {} THEN st
        ELSE IF Cardinality(found) > 1
        THEN [st EXCEPT !.ef = ef1, !.exc = "MultipleObjectsReturned"]
        ELSE [st EXCEPT !.ef = ef1 \cup found]

\* the reconciliation of one fixed-value type, lines 155-166;
\* st = [fields, ef, exc]: the ExtraField rows, the instance's extra_fields,
\* the exception raised so far
ReconcileFixed(st, t, v, field_to_save) ==
    LET ef1 == IF field_to_save # 0 THEN st.ef \ {field_to_save} ELSE st.ef
        found == {f \in FieldsOfType(st.fields, t) : st.fields[f].value = v}
    IN  IF found = {} THEN [st EXCEPT !.ef = ef1]
        ELSE IF Cardinality(found) > 1
        THEN [st EXCEPT !.ef = ef1, !.exc = "MultipleObjectsReturned"]
        ELSE [st EXCEPT !.ef = ef1 \cup found]

ReconcileFreeTextAlwaysNew(st, t, v, field_to_save) ==
    IF v # ""
    THEN [st EXCEPT !.fields = Append(st.fields, [field_type |-> t, value |-> v]),
                    !.ef = st.ef \cup {Len(st.fields) + 1}]
    ELSE st

\* the reconciliation of one free-text type, lines 168-177
ReconcileFreeText(st, t, v, field_to_save) ==
    IF field_to_save # 0
    THEN [st EXCEPT !.fields[field_to_save].value = v]
    ELSE IF v # ""
    THEN [st EXCEPT !.fields = Append(st.fields, [field_type |-> t, value |-> v]),
                    !.ef = st.ef \cup {Len(st.fields) + 1}]
    ELSE st

\* one turn of the loop over extra_field_types, lines 148-177
ReconcileType(st, t, v) ==
    LET mine == FieldsOfType(st.fields, t) \cap st.ef IN
    IF st.exc # "none" THEN st
    ELSE IF Cardinality(mine) > 1
    THEN [st EXCEPT !.exc = "MultipleObjectsReturned"]
    ELSE LET field_to_save == IF mine = {} THEN 0 ELSE CHOOSE f \in mine : TRUE IN
         IF types[t]
         THEN ReconcileFixed(st, t, v, field_to_save)
         ELSE ReconcileFreeText(st, t, v, field_to_save)

\* the loop over extra_field_types, taken in the order ts
RECURSIVE ReconcileAll(_, _, _)
ReconcileAll(st, ts, extra) ==
    IF ts = <<>> THEN st
    ELSE ReconcileAll(ReconcileType(st, Head(ts), extra[Head(ts)]), Tail(ts), extra)

\* the orders in which a queryset without an ordering may yield the rows S
Orders(S) ==
    {o \in [1..Cardinality(S) -> S] : \A i, j \in DOMAIN o : o[i] = o[j] => i = j}

\* the User rows after lines 130-145, or the exception user.save() raises
SaveUser(inst, d, cleaned) ==
    IF inst # 0
    THEN [rows |-> [users EXCEPT ![InstanceUser(inst)].email = d.email],
          exc |-> "none"]
    ELSE IF UsersWithUsername(NewUsername(d, cleaned)) # {}
    THEN [rows |-> users, exc |-> "IntegrityError"]
    ELSE [rows |-> Append(users, [username |-> NewUsername(d, cleaned),
                                   email |-> d.email]),
          exc |-> "none"]

\* self.instance.extra_fields of an unsaved instance, line 150: the framework
\* refuses the relation of an instance without a primary key (ValueError), or
\* it yields no ExtraField
UnsavedInstance(inst, needs_pk) ==
    IF inst = 0 /\ DOMAIN types # {} /\ needs_pk THEN "ValueError" ELSE "none"

Save ==
    /\ pc = "valid"
    /\ \E order \in Orders(DOMAIN types),
          needs_pk \in IF instance = 0 THEN BOOLEAN ELSE {FALSE} :
        LET u == SaveUser(instance, data, cleaned_username)
            st == ReconcileAll([fields |-> fields,
                                ef |-> InstanceFields(instance),
                                exc |-> IF u.exc # "none" THEN u.exc
                                        ELSE UnsavedInstance(instance, needs_pk)],
                               order, data.extra)
        IN  IF st.exc = "none"
            THEN /\ outcome' = "ok"
                 /\ users' = u.rows
                 /\ fields' = st.fields
                 /\ IF instance = 0
                    THEN /\ employees' = Append(employees,
                                [user |-> Len(u.rows), extra_fields |-> st.ef])
                         /\ instance' = Len(employees) + 1
                    ELSE /\ employees' = [employees EXCEPT
                                             ![instance].extra_fields = st.ef]
                         /\ UNCHANGED instance
            ELSE /\ outcome' = st.exc
                 /\ UNCHANGED instance
                 /\ \/ UNCHANGED <<users, employees, fields>>
                    \/ /\ users' = u.rows
                       /\ fields' = st.fields
                       /\ employees' =
                             IF instance = 0 THEN employees
                             ELSE [employees EXCEPT
                                      ![instance].extra_fields = st.ef]
    /\ pre' = [users |-> users, employees |-> employees, fields |-> fields]
    /\ pc' = "done"
    /\ UNCHANGED <<types, data, errors, email, username, cleaned_username>>

\* the response is sent: after a save, or with the form's errors
Respond ==
    /\ pc \in {"done", "invalid"}
    /\ pc' = "idle"
    /\ instance' = 0
    /\ data' = NoData
    /\ errors' = {}
    /\ email' = <<>>
    /\ username' = <<>>
    /\ cleaned_username' = <<>>
    /\ outcome' = "none"
    /\ pre' = NoPre
    /\ UNCHANGED store

-----------------------------------------------------------------------------
(* ExtraFieldForm and the ExtraFieldType rows *)

\* ExtraFieldForm: a new ExtraField of a type with fixed values
ExtraFieldFormSave(t, v) ==
    /\ pc = "idle"
    /\ t \in DOMAIN types
    /\ types[t]
    /\ Len(fields) < MaxFields
    /\ fields' = Append(fields, [field_type |-> t, value |-> v])
    /\ UNCHANGED <<users, employees, types, pc, form>>

\* an ExtraFieldType's fixed_values flag is changed
SetFixedValues(t) ==
    /\ pc = "idle"
    /\ t \in DOMAIN types
    /\ types' = [types EXCEPT ![t] = ~types[t]]
    /\ UNCHANGED <<users, employees, fields, pc, form>>

-----------------------------------------------------------------------------
(* Specifications *)

IdleForm ==
    /\ pc = "idle"
    /\ instance = 0
    /\ data = NoData
    /\ errors = {}
    /\ email = <<>>
    /\ username = <<>>
    /\ cleaned_username = <<>>
    /\ outcome = "none"
    /\ pre = NoPre

Usernames == Digests \cup Emails

DistinctUsernames(us) ==
    \A i, j \in DOMAIN us : us[i].username = us[j].username => i = j

DistinctEmails(us) ==
    \A i, j \in DOMAIN us : IExact(us[i].email, us[j].email) => i = j

\* a User's username is a digest, or the email it was created with by save
UserRows ==
    {r \in [username : Usernames, email : Emails] :
        r.username \in Digests \/ r.username = r.email}

InitialUsers ==
    {us \in UNION {[1..n -> UserRows] : n \in 0..InitUsers} :
        DistinctUsernames(us) /\ DistinctEmails(us)}

\* Accounts: any store of Users with distinct usernames and emails, each with
\* its Employee, and no ExtraFieldType defined.
Init ==
    /\ users \in InitialUsers
    /\ employees = [i \in DOMAIN users |-> [user |-> i, extra_fields |-> {}]]
    /\ fields = <<>>
    /\ types = <<>>
    /\ IdleForm

Submissions(es) ==
    [email : es, password : Passwords, retype_password : Passwords,
     extra : [DOMAIN types -> Values]]

Next ==
    \/ \E inst \in 0..MaxUsers, d \in Submissions(Emails) : Clean(inst, d)
    \/ GenerateStep
    \/ Save
    \/ Respond

Spec == Init /\ [][Next]_vars

\* generate_username's loop runs until it returns
FairSpec == Spec /\ WF_vars(GenerateStep)

\* Extra fields: one or two employees created by the form, both types
\* defined; creations, and edits that keep the email.
InitFields ==
    /\ users \in {<<[username |-> EmailB, email |-> EmailB]>>,
                  <<[username |-> EmailB, email |-> EmailB],
                    [username |-> EmailC, email |-> EmailC]>>}
    /\ employees = [i \in DOMAIN users |-> [user |-> i, extra_fields |-> {}]]
    /\ fields = <<>>
    /\ types \in [TypeNames -> BOOLEAN]
    /\ IdleForm

NextFields ==
    \/ \E inst \in DOMAIN employees, x \in [DOMAIN types -> Values] :
          Clean(inst, [email |-> users[employees[inst].user].email,
                       password |-> "", retype_password |-> "", extra |-> x])
    \/ \E x \in [DOMAIN types -> Values] :
          Clean(0, [email |-> EmailC, password |-> "p", retype_password |-> "p",
                    extra |-> x])
    \/ GenerateStep
    \/ Save
    \/ Respond
    \/ \E t \in TypeNames, v \in Values \ {""} : ExtraFieldFormSave(t, v)
    \/ \E t \in TypeNames : SetFixedValues(t)

SpecFields == InitFields /\ [][NextFields]_vars


-----------------------------------------------------------------------------
(* Properties *)

\* e followed by k copies of the marker character
WithMarkers(e, k) == e \o [i \in 1..k |-> "a"]

TakenUsernames == {users[i].username : i \in DOMAIN users}

\* the store is as it was when the form was validated
Validated == pc \in {"probe", "valid", "invalid"}

\* save has returned without an exception
Saved == pc = "done" /\ outcome = "ok"

\* the save created the User and the Employee
Created == Saved /\ Len(users) = Len(pre.users) + 1

\* the extra_fields the instance had when save was entered
PreFields == IF instance \in DOMAIN pre.employees
             THEN pre.employees[instance].extra_fields ELSE {}

PostFields == employees[instance].extra_fields

\* C1: all usernames are distinct and no creation has tried to store a
\* username that another account holds.
C1_UsernamesUnique ==
    /\ DistinctUsernames(users)
    /\ outcome # "IntegrityError"

\* C2: the username stored on a User the form created is the generated
\* username that validation put in cleaned_data.
C2_StoredUsernameIsGenerated ==
    Created => users[Len(users)].username = cleaned_username

\* C3: the username generate_username returned is held by no User and is the
\* digest of the email followed by k markers, for the least k whose digest is
\* not held.
C3_GeneratedUsername ==
    (Validated /\ cleaned_username # <<>>) =>
        /\ cleaned_username \notin TakenUsernames
        /\ \E k \in 0..Period :
              /\ cleaned_username = get_md5_hexdigest(WithMarkers(data.email, k))
              /\ \A j \in 0..(k - 1) :
                    get_md5_hexdigest(WithMarkers(data.email, j)) \in TakenUsernames

\* generate_username returned after at least two collisions
C3_Witness ==
    /\ pc = "valid"
    /\ cleaned_username = get_md5_hexdigest(WithMarkers(data.email, 2))
    /\ cleaned_username # get_md5_hexdigest(data.email)

\* C4: no two Users have emails equal ignoring case, and clean_email rejected
\* the submission exactly when a User other than the instance's own holds the
\* email ignoring case.
C4_EmailsUnique ==
    /\ DistinctEmails(users)
    /\ Validated =>
          ("email" \in errors <=>
              \E i \in DOMAIN users :
                  /\ i # InstanceUser(instance)
                  /\ IExact(users[i].email, data.email))

\* an edit that kept the employee's email but for its case was saved
C4_Witness ==
    /\ Saved
    /\ instance \in DOMAIN pre.employees
    /\ IExact(data.email, pre.users[pre.employees[instance].user].email)
    /\ data.email # pre.users[pre.employees[instance].user].email
    /\ Len(users) > 1

Mismatch ==
    /\ data.password # ""
    /\ data.retype_password # ""
    /\ data.password # data.retype_password

C6_OneFieldPerType ==
    \A e \in DOMAIN employees : \A t \in TypeNames :
        Cardinality(FieldsOfType(fields, t) \cap employees[e].extra_fields) <= 1

\* after a save of an employee that had a field, it has one field of each type
C6_Witness ==
    /\ Saved
    /\ PreFields # {}
    /\ \A t \in TypeNames :
          Cardinality(FieldsOfType(fields, t) \cap PostFields) = 1

\* the rows of type t that held the submitted value when save was entered
Matching(t) ==
    {f \in FieldsOfType(pre.fields, t) : pre.fields[f].value = data.extra[t]}

\* C7: after a save, for every fixed-value type the employee has a field of
\* the type iff a row of the type held the submitted value, the field is that
\* row, and the rows of the type are as they were.
C7_FixedReconciled ==
    Saved =>
        \A t \in DOMAIN types : types[t] =>
            LET mine == FieldsOfType(fields, t) \cap PostFields IN
            /\ mine # {} <=> Matching(t) # {}
            /\ mine \subseteq Matching(t)
            /\ Cardinality(mine) <= 1
            /\ FieldsOfType(fields, t) = FieldsOfType(pre.fields, t)
            /\ \A f \in FieldsOfType(pre.fields, t) : fields[f] = pre.fields[f]

\* a save moved the employee from one row of a fixed-value type to another
C7_Witness ==
    /\ Saved
    /\ \E t \in DOMAIN types :
          /\ types[t]
          /\ FieldsOfType(fields, t) \cap PreFields # {}
          /\ FieldsOfType(fields, t) \cap PostFields # {}
          /\ FieldsOfType(fields, t) \cap PreFields \cap PostFields = {}

\* C8: after a save, for every free-text type with a value submitted the
\* employee has one field of the type, holding the value: the field it had,
\* with no row added, or else one new row; with no value submitted and no
\* field before, no row is added.
C8_FreeTextReconciled ==
    Saved =>
        \A t \in DOMAIN types : ~types[t] =>
            LET before == FieldsOfType(pre.fields, t) \cap PreFields
                mine == FieldsOfType(fields, t) \cap PostFields
                added == FieldsOfType(fields, t) \ FieldsOfType(pre.fields, t)
            IN  /\ data.extra[t] # "" =>
                      /\ Cardinality(mine) = 1
                      /\ \A f \in mine : fields[f].value = data.extra[t]
                      /\ before # {} => (mine = before /\ added = {})
                      /\ before = {} => (mine = added)
                /\ (data.extra[t] = "" /\ before = {}) =>
                      (added = {} /\ mine = {})

\* a save changed the value of the free-text field the employee had
C8_Witness ==
    /\ Saved
    /\ \E t \in DOMAIN types :
          /\ ~types[t]
          /\ data.extra[t] # ""
          /\ \E f \in FieldsOfType(pre.fields, t) \cap PreFields :
                /\ pre.fields[f].value # data.extra[t]
                /\ fields[f].value = data.extra[t]

\* the digests generate_username computes from e, now or later
ProbeDigests(e) == {get_md5_hexdigest(WithMarkers(e, k)) : k \in 0..(Period - 1)}

FreeAhead == ProbeDigests(email) \ TakenUsernames # {}

\* C9 as stated: whatever the Users, the loop of generate_username has a
\* digest that no User holds ahead of it, which it reaches and returns.
C9_ProbeReachesFreeDigest == pc = "probe" => FreeAhead

\* C9 as amended: when some digest of the probe sequence is held by no User,
\* generate_username returns.
C9_ReturnsWhenFreeAhead ==
    (pc = "probe" /\ FreeAhead) ~> (pc \in {"valid", "invalid"})

\* generate_username is in its loop after a collision
C9_Witness ==
    /\ pc = "probe"
    /\ FreeAhead
    /\ email # data.email

\* the other employees' fields and their values are as before the save
OthersUnchanged ==
    \A e \in DOMAIN pre.employees : e # instance =>
        /\ employees[e].extra_fields = pre.employees[e].extra_fields
        /\ \A f \in pre.employees[e].extra_fields :
              fields[f].value = pre.fields[f].value

\* C10: a save leaves every other employee's fields and their values as they
\* were.
C10_OthersUnchanged == pc = "done" => OthersUnchanged

====
